---- MODULE Spec2Model ----
(***************************************************************************)
(* Model of the beach database: the region collection engine               *)
(* (OSMCollector.collect and the helpers it calls,                         *)
(* src/src/collectors/osm_collector.py), the geohash encoder               *)
(* (GeoProcessor.create_geohash, src/src/processors/geo_processor.py) and  *)
(* the per-region pipeline (BeachDataOrchestrator.process_region,          *)
(* src/src/main.py).                                                       *)
(*                                                                         *)
(* Coordinates and areas are exact rationals <<numerator, denominator>>    *)
(* with a positive denominator, kept in lowest terms.  The source computes *)
(* the same expressions in IEEE-754 doubles; rounding is not modelled.     *)
(***************************************************************************)
EXTENDS Integers, Sequences, FiniteSets, TLC

VARIABLES
    region,       \* the bounding box handed to collect
    pc,           \* position of the collect call
    splits,       \* the list returned by _calculate_optimal_splits
    idx,          \* position of the loop of _collect_split_region (1-based)
    attempt,      \* attempt number of the running _collect_with_retry call
    all_beaches,  \* the aggregate built by _collect_split_region
    result,       \* the list collect returned
    exc,          \* the exception collect raised
    leafLog,      \* history: one entry per finished _collect_with_retry call
    last_outcome, \* history: what the latest attempt of a leaf query met
    wait,         \* history: the sleep of the retry decorator before the
                  \* running attempt (0 before a first attempt)
    slept,        \* history: seconds of time.sleep since the latest api.query
    gap,          \* history: seconds of time.sleep between the latest
                  \* api.query and the one before it
    geo_calls,    \* history: the calls of GeoProcessor.create_geohash made so
                  \* far, each with its arguments and what it returned
    ppc,               \* position of the process_region call
    beaches_chunk,     \* the list process_region got from the collector
    bi,                \* position of the loop over beaches_chunk (1-based)
    processed_beaches, \* the cleaned records of the chunk
    total_processed,   \* the count process_region returns
    uploads,           \* history: the lists handed to FirebaseManager.batch_upload
    lpc,            \* position of the loop over result.ways in _collect_with_retry
    ways,           \* result.ways: what the Overpass API answered
    wi,             \* position of the loop over result.ways (1-based)
    leaf_beaches,   \* the local list beaches of _collect_with_retry
    skipped_count,  \* the local counter skipped_count of _collect_with_retry
    rpc,            \* position of the run_full_update call
    regions,        \* the list handed to run_full_update
    region_i,       \* position of the loop over regions (1-based)
    total_beaches,  \* the local total_beaches of run_full_update
    failed_regions, \* the local list failed_regions of run_full_update
    region_log,     \* history: one entry per call of process_region
    upc,            \* position of the batch_upload call
    n_beaches,      \* len(beaches) of the list handed to batch_upload
    count,          \* the local count of batch_upload
    batch,          \* the open write batch: the input positions it holds
    committed,      \* the store: the batches committed so far, in order
    metadata,       \* the document metadata/coastal_locations
    metadata_calls, \* history: calls of _update_metadata
    metadata_error  \* history: "Failed to update metadata" was logged

vars == <<region, pc, splits, idx, attempt, all_beaches, result, exc, leafLog,
          last_outcome, wait, slept, gap, geo_calls, ppc, beaches_chunk, bi,
          processed_beaches, total_processed, uploads, lpc, ways, wi,
          leaf_beaches, skipped_count, rpc, regions, region_i, total_beaches,
          failed_regions, region_log, upc, n_beaches, count, batch, committed,
          metadata, metadata_calls, metadata_error>>

\* the state of a call of OSMCollector.collect
collect_vars == <<region, pc, splits, idx, attempt, all_beaches, result, exc,
                  leafLog, last_outcome, wait, slept, gap>>

\* the state of a call of BeachDataOrchestrator.process_region
process_vars == <<ppc, beaches_chunk, bi, processed_beaches, total_processed,
                  uploads>>

\* the state of the loop over result.ways in OSMCollector._collect_with_retry
leaf_vars == <<lpc, ways, wi, leaf_beaches, skipped_count>>

\* the state of a call of BeachDataOrchestrator.run_full_update
update_vars == <<rpc, regions, region_i, total_beaches, failed_regions,
                 region_log>>

\* the state of a call of FirebaseManager.batch_upload, and the store
upload_vars == <<upc, n_beaches, count, batch, committed, metadata,
                 metadata_calls, metadata_error>>

\* what a call of OSMCollector.collect leaves alone
outside_collect == <<geo_calls, process_vars, leaf_vars, update_vars, upload_vars>>

\* what a call of GeoProcessor.create_geohash leaves alone
outside_geo == <<collect_vars, process_vars, leaf_vars, update_vars, upload_vars>>

\* what a call of BeachDataOrchestrator.process_region leaves alone, but for
\* the calls of create_geohash it makes
outside_process == <<collect_vars, leaf_vars, update_vars, upload_vars>>

\* what the loop over result.ways leaves alone
outside_leaf == <<collect_vars, geo_calls, process_vars, update_vars, upload_vars>>

\* what a call of BeachDataOrchestrator.run_full_update leaves alone
outside_update == <<collect_vars, geo_calls, process_vars, leaf_vars, upload_vars>>

\* what a call of FirebaseManager.batch_upload leaves alone
outside_upload == <<collect_vars, geo_calls, process_vars, leaf_vars, update_vars>>

\* a batch without operations, and the metadata document never written
EmptyBatch == [first |-> 1, last |-> 0]
NoMetadata == [updates |-> 0, total_locations |-> -1]

\* batch_upload before it is called, on an empty store
UploadIdle ==
    /\ upc = "idle"
    /\ n_beaches = 0
    /\ count = 0
    /\ batch = EmptyBatch
    /\ committed = <<>>
    /\ metadata = NoMetadata
    /\ metadata_calls = 0
    /\ metadata_error = FALSE

\* run_full_update before it is called
UpdateIdle ==
    /\ rpc = "idle"
    /\ regions = <<>>
    /\ region_i = 0
    /\ total_beaches = 0
    /\ failed_regions = <<>>
    /\ region_log = <<>>

\* no query has been answered yet
LeafIdle ==
    /\ lpc = "idle"
    /\ ways = <<>>
    /\ wi = 0
    /\ leaf_beaches = <<>>
    /\ skipped_count = 0

\* process_region before it is called
ProcessIdle ==
    /\ ppc = "start"
    /\ beaches_chunk = <<>>
    /\ bi = 0
    /\ processed_beaches = <<>>
    /\ total_processed = 0
    /\ uploads = <<>>

(***************************************************************************)
(* Bounds of the model.                                                    *)
(***************************************************************************)
\* Largest side of an input box, in quarter degrees.
MaxSpan == 12
\* Largest number of accepted records one leaf query returns.
MaxBeaches == 1
\* Attempt numbers of the retry loop are exact up to AttemptCap; above it only
\* their parity is kept (AttemptCap - 1, AttemptCap, AttemptCap - 1, ...).
AttemptCap == 5

(***************************************************************************)
(* Exact rational arithmetic.                                              *)
(***************************************************************************)
Abs(n) == IF n < 0 THEN -n ELSE n

RECURSIVE GCD(_, _)
GCD(a, b) == IF b = 0 THEN a ELSE GCD(b, a % b)

Norm(n, d) == LET g == GCD(Abs(n), d) IN <<n \div g, d \div g>>

Rat(n) == <<n, 1>>
RAdd(a, b) == Norm(a[1] * b[2] + b[1] * a[2], a[2] * b[2])
RSub(a, b) == Norm(a[1] * b[2] - b[1] * a[2], a[2] * b[2])
RMul(a, b) == Norm(a[1] * b[1], a[2] * b[2])
\* a / b for b > 0
RDiv(a, b) == Norm(a[1] * b[2], a[2] * b[1])
RLess(a, b) == a[1] * b[2] < b[1] * a[2]
RLeq(a, b) == a[1] * b[2] <= b[1] * a[2]

\* math.floor and math.ceil of a rational
floor(a) == a[1] \div a[2]
ceil(a) == -((-a[1]) \div a[2])

\* math.sqrt of a positive integer followed by math.ceil
ceil_sqrt(n) == CHOOSE k \in 0..n : k * k >= n /\ \A m \in 0..(k - 1) : m * m < n

(***************************************************************************)
(* OSMCollector.__init__: the configuration for region splitting.          *)
(***************************************************************************)
max_area == Rat(4)
min_area == <<1, 4>>

(***************************************************************************)
(* _calculate_area                                                         *)
(***************************************************************************)
_calculate_area(r) == RMul(RSub(r.north, r.south), RSub(r.east, r.west))

(***************************************************************************)
(* _calculate_optimal_splits                                               *)
(***************************************************************************)
splits_needed_half(r) == ceil(RDiv(_calculate_area(r), RMul(Rat(2), max_area)))
splits_needed(r) == ceil(RDiv(_calculate_area(r), max_area))

lat_range(r) == RSub(r.north, r.south)
lon_range(r) == RSub(r.east, r.west)

lat_splits(r) ==
    IF RLess(lon_range(r), lat_range(r)) THEN ceil_sqrt(splits_needed(r)) ELSE 1

lon_splits_floor(r) == splits_needed(r) \div lat_splits(r)
lon_splits(r) == ceil(<<splits_needed(r), lat_splits(r)>>)

lat_step_floordiv(r) == Rat(floor(RDiv(lat_range(r), Rat(lat_splits(r)))))
lat_step(r) == RDiv(lat_range(r), Rat(lat_splits(r)))
lon_step(r) == RDiv(lon_range(r), Rat(lon_splits(r)))

\* the dictionary built for row i, column j (both 0-based)
split_region(r, i, j) ==
    [name  |-> r.name \o <<i, j>>,
     south |-> RAdd(r.south, RMul(Rat(i), lat_step(r))),
     north |-> RAdd(r.south, RMul(Rat(i + 1), lat_step(r))),
     west  |-> RAdd(r.west, RMul(Rat(j), lon_step(r))),
     east  |-> RAdd(r.west, RMul(Rat(j + 1), lon_step(r)))]

_calculate_optimal_splits(r) ==
    IF splits_needed(r) <= 1
    THEN <<r>>
    ELSE [k \in 1..(lat_splits(r) * lon_splits(r)) |->
            split_region(r, (k - 1) \div lon_splits(r), (k - 1) % lon_splits(r))]

(***************************************************************************)
(* Input boxes: corner (south, west) and the two sides in quarter degrees; *)
(* a side of 0 or -1 gives a malformed box.                                *)
(***************************************************************************)
Box(s, w, dlat, dlon) ==
    [name  |-> <<>>,
     south |-> s,
     north |-> RAdd(s, <<dlat, 4>>),
     west  |-> w,
     east  |-> RAdd(w, <<dlon, 4>>)]

Corners == {<<Rat(0), Rat(0)>>, <<Rat(-35), <<451, 4>>>>}

Regions ==
    {Box(c[1], c[2], dlat, dlon) : c \in Corners, dlat \in -1..MaxSpan, dlon \in -1..MaxSpan}

\* the region of the scenario of the specification, 22 by 17 degrees
Australia ==
    [name |-> <<>>, south |-> Rat(-35), north |-> Rat(-13),
     west |-> Rat(112), east |-> Rat(129)]

\* _calculate_area and _calculate_optimal_splits tabulated over the input
\* boxes: the calls collect makes on its argument
AreaOf == [r \in Regions \cup {Australia} |-> _calculate_area(r)]
SplitsOf == [r \in Regions \cup {Australia} |-> _calculate_optimal_splits(r)]

NoException == [type |-> "none", timeout_in_message |-> FALSE]

(***************************************************************************)
(* The grid computation on its own: _calculate_optimal_splits applied to   *)
(* an input box.                                                           *)
(***************************************************************************)
SplitInit ==
    /\ region \in Regions \cup {Australia}
    /\ pc = "start"
    /\ splits = <<>>
    /\ idx = 0
    /\ attempt = 0
    /\ all_beaches = <<>>
    /\ result = <<>>
    /\ exc = NoException
    /\ leafLog = <<>>
    /\ last_outcome = "none"
    /\ wait = 0
    /\ slept = 0
    /\ gap = 0
    /\ geo_calls = <<>>
    /\ ProcessIdle
    /\ LeafIdle
    /\ UpdateIdle
    /\ UploadIdle

calculate_optimal_splits ==
    /\ pc = "start"
    /\ splits' = _calculate_optimal_splits(region)
    /\ pc' = "computed"
    /\ UNCHANGED <<region, idx, attempt, all_beaches, result, exc, leafLog,
                   last_outcome, wait, slept, gap>>
    /\ UNCHANGED outside_collect

SplitNext == calculate_optimal_splits

SplitSpec == SplitInit /\ [][SplitNext]_vars

(***************************************************************************)
(* One attempt of a leaf query: what the Overpass API answers.             *)
(*   records      ways of which n >= 1 are accepted                        *)
(*   empty        no way, or no accepted way                               *)
(*   timeout      overpy.exception.OverpassGatewayTimeout                  *)
(*   ratelimited  overpy.exception.OverpassTooManyRequests                 *)
(*   other        any other exception; its message may hold "timeout"      *)
(***************************************************************************)
Outcome(kind, n, t) == [kind |-> kind, n |-> n, timeout_in_message |-> t]

Outcomes ==
    {Outcome("records", n, FALSE) : n \in 1..MaxBeaches}
    \cup {Outcome("empty", 0, FALSE), Outcome("timeout", 0, FALSE),
          Outcome("ratelimited", 0, FALSE)}
    \cup {Outcome("other", 0, t) : t \in BOOLEAN}

\* the accepted records of a leaf query of box r
Beaches(r, n) == [k \in 1..n |-> [src |-> r, k |-> k]]

(***************************************************************************)
(* _collect_with_retry, the decorated function.                            *)
(***************************************************************************)
retry_any_exception(e) == TRUE
should_retry_exception(e) == e.type = "OverpassTooManyRequests"

stop_never(n) == FALSE
stop_after_attempt_4(n) == n >= 4
stop_after_attempt(n) == n >= 3

next_attempt(n) == IF n < AttemptCap THEN n + 1 ELSE AttemptCap - 1

\* wait=wait_exponential(multiplier=1, min=4, max=10): the sleep after failed
\* attempt number n.  tenacity computes multiplier * 2^(n - 1) and clamps it
\* between min and max.
wait_multiplier == 1
wait_min == 4
wait_max == 10

Min(a, b) == IF a <= b THEN a ELSE b
Max(a, b) == IF a >= b THEN a ELSE b

wait_exponential(n) ==
    Max(Max(0, wait_min), Min(wait_multiplier * 2 ^ (n - 1), wait_max))

\* lines 31-32: the delays for rate limiting, in seconds
query_delay == 2
split_delay == 3

\* line 103: time.sleep(self.query_delay) closes a query that was answered;
\* the except clause of line 106 and a raised exception pass it by
sleep_in_body(o) == IF o.kind \in {"records", "empty"} THEN query_delay ELSE 0

\* what a finished attempt of the direct leaf query sleeps
sleep_after_direct(o, res, n) ==
    CASE res.status = "retry" -> wait_exponential(n)
      [] res.status = "return" -> sleep_in_body(o)
      [] res.status = "raise" -> 0

\* lines 127-133: what a finished attempt of a sub-box sleeps; line 129 is
\* skipped when the call raised
sleep_after_subregion(o, res, n) ==
    CASE res.status = "retry" -> wait_exponential(n)
      [] res.status = "return" -> sleep_in_body(o) + split_delay
      [] res.status = "raise" -> 0

\* the body of the function: it returns a list or lets an exception out
body(r, o) ==
    CASE o.kind = "records" ->
            [status |-> "return", beaches |-> Beaches(r, o.n), exc |-> NoException]
      [] o.kind = "empty" ->
            [status |-> "return", beaches |-> <<>>, exc |-> NoException]
      [] o.kind = "timeout" ->
            [status |-> "return", beaches |-> <<>>, exc |-> NoException]
      [] o.kind = "ratelimited" ->
            [status |-> "raise", beaches |-> <<>>,
             exc |-> [type |-> "OverpassTooManyRequests", timeout_in_message |-> FALSE]]
      [] o.kind = "other" ->
            [status |-> "raise", beaches |-> <<>>,
             exc |-> [type |-> "Exception", timeout_in_message |-> o.timeout_in_message]]

\* the retry decorator around attempt number n of the body
_collect_with_retry(r, o, n) ==
    LET b == body(r, o) IN
    IF b.status = "raise" /\ should_retry_exception(b.exc)
    THEN IF stop_after_attempt(n)
         THEN [status |-> "raise", beaches |-> <<>>,
               exc |-> [type |-> "RetryError", timeout_in_message |-> FALSE]]
         ELSE [status |-> "retry", beaches |-> <<>>, exc |-> NoException]
    ELSE b

\* how a finished leaf query is remembered
Outcome_of(o, res) ==
    IF res.status = "raise" /\ res.exc.type = "RetryError" THEN "exhausted" ELSE o.kind

LogEntry(r, via, o, res) ==
    [box |-> r, via |-> via, outcome |-> Outcome_of(o, res), beaches |-> res.beaches]

(***************************************************************************)
(* collect                                                                 *)
(***************************************************************************)
too_large_min_only(area) == RLess(min_area, area)
too_large(area) == RLess(max_area, area) /\ RLess(min_area, area)

fallback_never(beaches, area) == FALSE
fallback_any_area(beaches, area) == beaches = <<>>
fallback_split(beaches, area) == beaches = <<>> /\ RLess(min_area, area)

too_small_to_split(area) == RLeq(area, min_area)

\* entering _collect_split_region(region)
EnterSplit ==
    /\ pc' = "split"
    /\ splits' = SplitsOf[region]
    /\ idx' = 1
    /\ attempt' = 1
    /\ all_beaches' = <<>>
    /\ UNCHANGED <<result, exc>>

Return(beaches) ==
    /\ pc' = "returned"
    /\ result' = beaches
    /\ UNCHANGED <<splits, idx, attempt, all_beaches, exc>>

Raise(e) ==
    /\ pc' = "raised"
    /\ exc' = e
    /\ UNCHANGED <<splits, idx, attempt, all_beaches, result>>

\* _handle_timeout(region)
_handle_timeout ==
    IF too_small_to_split(AreaOf[region]) THEN Return(<<>>) ELSE EnterSplit

\* lines 40-48: the area test, up to the call of the direct leaf query
collect ==
    /\ pc = "start"
    /\ IF too_large(AreaOf[region])
       THEN EnterSplit
       ELSE /\ pc' = "direct"
            /\ attempt' = 1
            /\ UNCHANGED <<splits, idx, all_beaches, result, exc>>
    /\ UNCHANGED <<region, leafLog, last_outcome, wait, slept, gap>>
    /\ UNCHANGED outside_collect

\* lines 48-60: one attempt of the direct leaf query and what collect does
\* with its result
collect_direct ==
    /\ pc = "direct"
    /\ \E o \in Outcomes :
         LET res == _collect_with_retry(region, o, attempt) IN
         /\ last_outcome' = o.kind
         /\ wait' = IF res.status = "retry" THEN wait_exponential(attempt) ELSE 0
         /\ gap' = slept
         /\ slept' = sleep_after_direct(o, res, attempt)
         /\ CASE res.status = "retry" ->
                /\ attempt' = next_attempt(attempt)
                /\ UNCHANGED <<pc, splits, idx, all_beaches, result, exc, leafLog>>
           [] res.status = "return" ->
                /\ leafLog' = Append(leafLog, LogEntry(region, "direct", o, res))
                /\ IF fallback_split(res.beaches, AreaOf[region])
                   THEN EnterSplit
                   ELSE Return(res.beaches)
           [] res.status = "raise" ->
                /\ leafLog' = Append(leafLog, LogEntry(region, "direct", o, res))
                /\ IF res.exc.timeout_in_message
                   THEN _handle_timeout
                   ELSE Raise(res.exc)
    /\ UNCHANGED region
    /\ UNCHANGED outside_collect

(***************************************************************************)
(* _collect_split_region                                                   *)
(***************************************************************************)
on_error_break(i, n) == n + 1
on_error_continue(i, n) == i + 1

\* one attempt of the leaf query of splits[idx]
_collect_split_region ==
    /\ pc = "split"
    /\ idx <= Len(splits)
    /\ \E o \in Outcomes :
         LET subregion == splits[idx]
             res == _collect_with_retry(subregion, o, attempt)
         IN
         /\ last_outcome' = o.kind
         /\ wait' = IF res.status = "retry" THEN wait_exponential(attempt) ELSE 0
         \* line 126: time.sleep(self.query_delay) before the call
         /\ gap' = slept + (IF attempt = 1 THEN query_delay ELSE 0)
         /\ slept' = sleep_after_subregion(o, res, attempt)
         /\ CASE res.status = "retry" ->
                /\ attempt' = next_attempt(attempt)
                /\ UNCHANGED <<idx, all_beaches, leafLog>>
           [] res.status = "return" ->
                /\ all_beaches' = all_beaches \o res.beaches
                /\ idx' = idx + 1
                /\ attempt' = 1
                /\ leafLog' = Append(leafLog, LogEntry(subregion, "split", o, res))
           [] res.status = "raise" ->
                /\ idx' = on_error_continue(idx, Len(splits))
                /\ attempt' = 1
                /\ leafLog' = Append(leafLog, LogEntry(subregion, "split", o, res))
                /\ UNCHANGED all_beaches
    /\ UNCHANGED <<region, pc, splits, result, exc>>
    /\ UNCHANGED outside_collect

\* the loop is over: return all_beaches
_collect_split_region_return ==
    /\ pc = "split"
    /\ idx > Len(splits)
    /\ pc' = "returned"
    /\ result' = all_beaches
    /\ UNCHANGED <<region, splits, idx, attempt, all_beaches, exc, leafLog,
                   last_outcome, wait, slept, gap>>
    /\ UNCHANGED outside_collect

(***************************************************************************)
(* One call of collect on an input box.                                    *)
(***************************************************************************)
Init ==
    /\ region \in Regions
    /\ pc = "start"
    /\ splits = <<>>
    /\ idx = 0
    /\ attempt = 0
    /\ all_beaches = <<>>
    /\ result = <<>>
    /\ exc = NoException
    /\ leafLog = <<>>
    /\ last_outcome = "none"
    /\ wait = 0
    /\ slept = 0
    /\ gap = 0
    /\ geo_calls = <<>>
    /\ ProcessIdle
    /\ LeafIdle
    /\ UpdateIdle
    /\ UploadIdle

Next ==
    \/ collect
    \/ collect_direct
    \/ _collect_split_region
    \/ _collect_split_region_return

Spec == Init /\ [][Next]_vars

\* every step of the call is a step of one running thread: it is always taken
FairSpec == Spec /\ WF_vars(Next)

(***************************************************************************)
(* GeoProcessor.create_geohash (src/src/processors/geo_processor.py).      *)
(*                                                                         *)
(* The two ranges are halved again and again, so their ends are dyadic:    *)
(* a range is kept as [lo, hi, k], standing for (lo / 2^k, hi / 2^k), and  *)
(* k counts its halvings.  These values are exact in IEEE-754 doubles as   *)
(* well, so (range[0] + range[1]) / 2 is computed without rounding.        *)
(***************************************************************************)
\* Largest precision asked of create_geohash.
MaxPrecision == 8

base32 ==
    << "0", "1", "2", "3", "4", "5", "6", "7", "8", "9", "b", "c", "d", "e",
       "f", "g", "h", "j", "k", "m", "n", "p", "q", "r", "s", "t", "u", "v",
       "w", "x", "y", "z" >>

bits_lsb_first == <<1, 2, 4, 8, 16>>
bits == <<16, 8, 4, 2, 1>>

Interval(lo, hi) == [lo |-> lo, hi |-> hi, k |-> 0]

\* coordinate > mid, with mid = (range[0] + range[1]) / 2
exceeds_or_equals_mid(c, r) == c[1] * 2 ^ (r.k + 1) >= (r.lo + r.hi) * c[2]
exceeds_mid(c, r) == c[1] * 2 ^ (r.k + 1) > (r.lo + r.hi) * c[2]

\* (mid, range[1]) and (range[0], mid)
upper_half(r) == [lo |-> r.lo + r.hi, hi |-> 2 * r.hi, k |-> r.k + 1]
lower_half(r) == [lo |-> 2 * r.lo, hi |-> r.lo + r.hi, k |-> r.k + 1]

\* lines 61-69: the locals at the start of a call
geo_locals ==
    [lat_range |-> Interval(-90, 90), lon_range |-> Interval(-180, 180),
     geohash |-> <<>>, bit |-> 0, ch |-> 0, is_even |-> TRUE]

\* lines 72-96: one pass of the loop body.  ch |= bits[bit] sets a bit that
\* is still clear, which adds bits[bit] to ch.
geo_iteration(g, latitude, longitude) ==
    LET c == IF g.is_even THEN longitude ELSE latitude
        r == IF g.is_even THEN g.lon_range ELSE g.lat_range
        up == exceeds_mid(c, r)
        half == IF up THEN upper_half(r) ELSE lower_half(r)
        ch == IF up THEN g.ch + bits[g.bit + 1] ELSE g.ch
    IN [lat_range |-> IF g.is_even THEN g.lat_range ELSE half,
        lon_range |-> IF g.is_even THEN half ELSE g.lon_range,
        is_even |-> ~g.is_even,
        bit |-> IF g.bit < 4 THEN g.bit + 1 ELSE 0,
        ch |-> IF g.bit < 4 THEN ch ELSE 0,
        geohash |-> IF g.bit < 4 THEN g.geohash
                    ELSE Append(g.geohash, base32[ch + 1])]

\* line 71: while len(geohash) < precision
geo_continue_one_more(geohash, precision) == Len(geohash) <= precision
geo_continue(geohash, precision) == Len(geohash) < precision

RECURSIVE geo_loop(_, _, _, _)
geo_loop(g, latitude, longitude, precision) ==
    IF geo_continue(g.geohash, precision)
    THEN LET next == geo_iteration(g, latitude, longitude)
         IN geo_loop(next, latitude, longitude, precision)
    ELSE g.geohash

\* the string returned, as the sequence of its characters
create_geohash(latitude, longitude, precision) ==
    geo_loop(geo_locals, latitude, longitude, precision)

\* one finished call
GeoCall(latitude, longitude, precision) ==
    [latitude |-> latitude, longitude |-> longitude, precision |-> precision,
     status |-> "return",
     geohash |-> create_geohash(latitude, longitude, precision)]

(***************************************************************************)
(* create_geohash on its own: one call on an input drawn from a grid of    *)
(* coordinates, in range and out of range.                                 *)
(***************************************************************************)
GeoLats ==
    {Rat(-91), Rat(-90), Rat(-45), Rat(0), <<1, 10000>>, <<45, 2>>,
     Rat(50), Rat(90), Rat(100)}

GeoLons ==
    {Rat(-181), Rat(-180), Rat(-90), Rat(0), <<1, 10000>>, <<45, 2>>,
     Rat(50), Rat(180), Rat(200)}

GeoInit ==
    /\ region = Australia
    /\ pc = "start"
    /\ splits = <<>>
    /\ idx = 0
    /\ attempt = 0
    /\ all_beaches = <<>>
    /\ result = <<>>
    /\ exc = NoException
    /\ leafLog = <<>>
    /\ last_outcome = "none"
    /\ wait = 0
    /\ slept = 0
    /\ gap = 0
    /\ geo_calls = <<>>
    /\ ProcessIdle
    /\ LeafIdle
    /\ UpdateIdle
    /\ UploadIdle

create_geohash_call ==
    /\ geo_calls = <<>>
    /\ \E latitude \in GeoLats, longitude \in GeoLons, precision \in 1..MaxPrecision :
         geo_calls' = <<GeoCall(latitude, longitude, precision)>>
    /\ UNCHANGED outside_geo

GeoNext == create_geohash_call

GeoSpec == GeoInit /\ [][GeoNext]_vars

(***************************************************************************)
(* The locality scenario: up to three calls in a row, at one precision, on *)
(* the origin, a point a ten-thousandth of a degree away and a far point.  *)
(***************************************************************************)
Origin == <<Rat(0), Rat(0)>>
NearOrigin == << <<1, 10000>>, <<1, 10000>> >>
FarPoint == <<Rat(50), Rat(50)>>

ScenarioPoints == {Origin, NearOrigin, FarPoint}

create_geohash_scenario ==
    /\ Len(geo_calls) < 3
    /\ \E pt \in ScenarioPoints, precision \in 1..MaxPrecision :
         /\ geo_calls # <<>> => precision = geo_calls[1].precision
         /\ geo_calls' = Append(geo_calls, GeoCall(pt[1], pt[2], precision))
    /\ UNCHANGED outside_geo

LocalityNext == create_geohash_scenario

LocalitySpec == GeoInit /\ [][LocalityNext]_vars

(***************************************************************************)
(* BeachDataOrchestrator.process_region (src/src/main.py) with             *)
(* DataCleaner.clean_beach_data (src/src/processors/data_cleaner.py).      *)
(*                                                                         *)
(* A record is [id, latitude, longitude, description, has_geohash,         *)
(* geohash]; has_geohash says whether the attribute geohash was set.  The  *)
(* description is "none" (None), "text" or "blank" (white space only).     *)
(***************************************************************************)
\* Largest number of records in the list the collector returns.
MaxRecords == 2

\* create_geohash(latitude, longitude, precision=8)
default_precision == 8

BeachData(id, latitude, longitude, description) ==
    [id |-> id, latitude |-> latitude, longitude |-> longitude,
     description |-> description, has_geohash |-> FALSE, geohash |-> <<>>]

\* round(float(coord), 6): the nearest multiple of 10^-6, a tie going to
\* the even one
_clean_coordinate(coord) ==
    LET scaled == RMul(coord, Rat(1000000))
        below == floor(scaled)
        rest == scaled[1] - below * scaled[2]
        n == IF 2 * rest > scaled[2] \/ (2 * rest = scaled[2] /\ below % 2 = 1)
             THEN below + 1 ELSE below
    IN Norm(n, 1000000)

\* _clean_description takes description[0] after dropping the white space:
\* an IndexError for a blank description
clean_raises(beach) == beach.description = "blank"

clean_beach_data(beach) ==
    BeachData(beach.id, _clean_coordinate(beach.latitude),
              _clean_coordinate(beach.longitude), beach.description)

\* lines 116-128: the except branch returns the beach as it is
_add_geohash_failed(beach) == beach
_add_geohash(beach) ==
    LET call == GeoCall(beach.latitude, beach.longitude, default_precision) IN
    IF call.status = "return"
    THEN [beach EXCEPT !.geohash = call.geohash, !.has_geohash = TRUE]
    ELSE beach

\* what the collector hands over: accepted records, whose coordinates are
\* numbers in range (OSMCollector.validate_data)
PipeLats == {Rat(0), <<1, 2500000>>, <<-67, 2>>}
PipeLons == {Rat(0), <<303, 2>>}
Descriptions == {"none", "text", "blank"}

Chunks ==
    UNION {
      {[k \in 1..n |-> BeachData(k, f[k][1], f[k][2], f[k][3])] :
          f \in [1..n -> PipeLats \X PipeLons \X Descriptions]} :
      n \in 0..MaxRecords}

\* lines 58-68: collect returns a list, which becomes the only chunk;
\* an empty chunk is skipped
process_region_collect ==
    /\ ppc = "start"
    /\ \E chunk \in Chunks :
         /\ beaches_chunk' = chunk
         /\ IF chunk = <<>>
            THEN ppc' = "returned" /\ bi' = bi
            ELSE ppc' = "beaches" /\ bi' = 1
    /\ UNCHANGED <<processed_beaches, total_processed, uploads>>
    /\ UNCHANGED <<outside_process, geo_calls>>

\* lines 61 and 112-114: collect raises and process_region raises in turn
process_region_raise ==
    /\ ppc = "start"
    /\ ppc' = "raised"
    /\ UNCHANGED <<beaches_chunk, bi, processed_beaches, total_processed, uploads>>
    /\ UNCHANGED <<outside_process, geo_calls>>

\* lines 76-90: one record of the chunk
process_beach ==
    /\ ppc = "beaches"
    /\ bi <= Len(beaches_chunk)
    /\ LET beach == beaches_chunk[bi] IN
       IF clean_raises(beach)
       THEN UNCHANGED <<processed_beaches, total_processed, geo_calls>>
       ELSE LET cleaned_beach == clean_beach_data(beach) IN
            /\ geo_calls' = Append(geo_calls,
                   GeoCall(cleaned_beach.latitude, cleaned_beach.longitude,
                           default_precision))
            /\ processed_beaches' =
                   Append(processed_beaches, _add_geohash(cleaned_beach))
            /\ total_processed' = total_processed + 1
    /\ bi' = bi + 1
    /\ UNCHANGED <<ppc, beaches_chunk, uploads>>
    /\ UNCHANGED outside_process

\* lines 92-110: the chunk is done; a non-empty processed_beaches is handed
\* to batch_upload (a failed upload is logged) and process_region returns
process_region_upload ==
    /\ ppc = "beaches"
    /\ bi > Len(beaches_chunk)
    /\ uploads' = IF processed_beaches # <<>>
                  THEN Append(uploads, processed_beaches) ELSE uploads
    /\ ppc' = "returned"
    /\ UNCHANGED <<beaches_chunk, bi, processed_beaches, total_processed>>
    /\ UNCHANGED <<outside_process, geo_calls>>

ProcessNext ==
    \/ process_region_collect
    \/ process_region_raise
    \/ process_beach
    \/ process_region_upload

ProcessSpec == GeoInit /\ [][ProcessNext]_vars

(***************************************************************************)
(* The loop over result.ways in OSMCollector._collect_with_retry (lines    *)
(* 82-104) with _extract_coordinates, process_data and validate_data.      *)
(*                                                                         *)
(* A string is the sequence of its characters.  A way is [id, coords,      *)
(* name, latitude, longitude]: coords says what _extract_coordinates does  *)
(* with it, "ok" (a pair of floats), "none" (it returns None) or "raise"   *)
(* (an exception gets out of it, or out of process_data after it);         *)
(* name is tags.get("name"), with <<>> for None and for the empty string.  *)
(***************************************************************************)
\* Largest number of ways in the answer to a query.
MaxWays == 2

Digits == {"0", "1", "2", "3", "4", "5", "6", "7", "8", "9"}
Uppercase ==
    << "A", "B", "C", "D", "E", "F", "G", "H", "I", "J", "K", "L", "M", "N",
       "O", "P", "Q", "R", "S", "T", "U", "V", "W", "X", "Y", "Z" >>
Lowercase ==
    << "a", "b", "c", "d", "e", "f", "g", "h", "i", "j", "k", "l", "m", "n",
       "o", "p", "q", "r", "s", "t", "u", "v", "w", "x", "y", "z" >>

\* str.startswith, str.lower and str.isdigit
startswith(str, prefix) ==
    Len(str) >= Len(prefix) /\ SubSeq(str, 1, Len(prefix)) = prefix

lower(str) ==
    [i \in 1..Len(str) |->
        IF \E k \in 1..26 : Uppercase[k] = str[i]
        THEN Lowercase[CHOOSE k \in 1..26 : Uppercase[k] = str[i]]
        ELSE str[i]]

isdigit_never(str) == FALSE
isdigit(str) == str # <<>> /\ \A i \in 1..Len(str) : str[i] \in Digits

\* lines 227-242: the BeachData built from a way
process_data(way) ==
    [id |-> way.id, name |-> way.name, latitude |-> way.latitude,
     longitude |-> way.longitude, enriched |-> FALSE]

\* lines 244-272; coordinates are floats, so the isinstance test passes
validate_data(data) ==
    IF data.name = <<>> THEN FALSE
    ELSE IF \/ startswith(data.name, <<"B", "e", "a", "c", "h", " ">>)
            \/ lower(data.name) =
                 <<"u", "n", "n", "a", "m", "e", "d", " ", "b", "e", "a", "c", "h">>
         THEN FALSE
    ELSE IF Len(data.name) < 3 THEN FALSE
    ELSE IF isdigit(data.name) THEN FALSE
    ELSE IF ~(RLeq(Rat(-90), data.latitude) /\ RLeq(data.latitude, Rat(90)))
         THEN FALSE
    ELSE IF ~(RLeq(Rat(-180), data.longitude) /\ RLeq(data.longitude, Rat(180)))
         THEN FALSE
    ELSE TRUE

\* DataEnrichmentService.enrich_beach_data fills in country, region and
\* description; it leaves id, name and coordinates as they are and never
\* raises
enrich_beach_data(beach) == [beach EXCEPT !.enriched = TRUE]

\* the names of the ways
Names ==
    { <<>>,
      <<"a", "b">>,
      <<"1", "2", "3", "4", "5">>,
      <<"B", "o", "n", "d", "i", " ", "B", "e", "a", "c", "h">>,
      <<"B", "e", "a", "c", "h", " ", "1", "2">>,
      <<"U", "n", "n", "a", "m", "e", "d", " ", "B", "e", "a", "c", "h">> }

Way(id, shape) ==
    [id |-> id, coords |-> shape[1], name |-> shape[2],
     latitude |-> shape[3], longitude |-> shape[4]]

WayShapes ==
    ({"ok"} \X Names \X {Rat(-34), Rat(91)} \X {Rat(151), Rat(-181)})
    \cup {<<"none", <<>>, Rat(0), Rat(0)>>, <<"raise", <<>>, Rat(0), Rat(0)>>}

WayLists ==
    UNION {{[k \in 1..n |-> Way(k, f[k])] : f \in [1..n -> WayShapes]} :
           n \in 0..MaxWays}

\* lines 94-96: an exception in one way is logged and the loop goes on
on_way_error_break(i, n) == n + 1
on_way_error_continue(i, n) == i + 1

\* line 80: the query is answered
api_query ==
    /\ lpc = "idle"
    /\ \E answer \in WayLists : ways' = answer
    /\ lpc' = "loop"
    /\ wi' = 1
    /\ UNCHANGED <<leaf_beaches, skipped_count>>
    /\ UNCHANGED outside_leaf

\* lines 82-96: one way
process_way ==
    /\ lpc = "loop"
    /\ wi <= Len(ways)
    /\ LET way == ways[wi] IN
       CASE way.coords = "raise" ->
              /\ wi' = on_way_error_continue(wi, Len(ways))
              /\ UNCHANGED <<leaf_beaches, skipped_count>>
         [] way.coords = "none" ->
              /\ wi' = wi + 1
              /\ UNCHANGED <<leaf_beaches, skipped_count>>
         [] way.coords = "ok" ->
              LET beach_data == process_data(way) IN
              /\ wi' = wi + 1
              /\ IF validate_data(beach_data)
                 THEN /\ leaf_beaches' =
                            Append(leaf_beaches, enrich_beach_data(beach_data))
                      /\ UNCHANGED skipped_count
                 ELSE /\ skipped_count' = skipped_count + 1
                      /\ UNCHANGED leaf_beaches
    /\ UNCHANGED <<lpc, ways>>
    /\ UNCHANGED outside_leaf

\* lines 98-104: the loop is over, the list is returned
leaf_return ==
    /\ lpc = "loop"
    /\ wi > Len(ways)
    /\ lpc' = "returned"
    /\ UNCHANGED <<ways, wi, leaf_beaches, skipped_count>>
    /\ UNCHANGED outside_leaf

LeafNext ==
    \/ api_query
    \/ process_way
    \/ leaf_return

LeafSpec == GeoInit /\ [][LeafNext]_vars

(***************************************************************************)
(* BeachDataOrchestrator.run_full_update (src/src/main.py, lines 130-164). *)
(*                                                                         *)
(* A region of the list is known by its name, "none" for a dictionary      *)
(* without the key 'name'.  process_region returns a count or raises.      *)
(***************************************************************************)
\* Largest number of regions in the list.
MaxRegions == 3

RegionNames == {"Mediterranean Coast", "Caribbean", "none"}

RegionLists == UNION {[1..n -> RegionNames] : n \in 0..MaxRegions}

\* what one call of process_region does: it returns total_processed or raises
ProcessOutcomes ==
    {[kind |-> "returned", n |-> n] : n \in 0..MaxRecords}
    \cup {[kind |-> "raised", n |-> 0]}

\* region.get('name', f"Region {i}")
region_name(r, i) ==
    IF r = "none" THEN [name |-> "Region", i |-> i] ELSE [name |-> r, i |-> 0]

\* lines 148-151: the failure of a region is recorded and the loop goes on
on_region_error_stop(i, n) == n + 1
on_region_error_continue(i, n) == i + 1

\* lines 130-136: the call
run_full_update ==
    /\ rpc = "idle"
    /\ \E list \in RegionLists : regions' = list
    /\ rpc' = "loop"
    /\ region_i' = 1
    /\ total_beaches' = 0
    /\ failed_regions' = <<>>
    /\ UNCHANGED region_log
    /\ UNCHANGED outside_update

\* lines 138-151: one region; the sleep of line 146 changes nothing here
run_full_update_region ==
    /\ rpc = "loop"
    /\ region_i <= Len(regions)
    /\ \E o \in ProcessOutcomes :
         /\ region_log' = Append(region_log,
                [i |-> region_i, region |-> regions[region_i],
                 outcome |-> o.kind, n |-> o.n])
         /\ IF o.kind = "returned"
            THEN /\ total_beaches' = total_beaches + o.n
                 /\ region_i' = region_i + 1
                 /\ UNCHANGED failed_regions
            ELSE /\ failed_regions' =
                       Append(failed_regions,
                              region_name(regions[region_i], region_i))
                 /\ region_i' = on_region_error_continue(region_i, Len(regions))
                 /\ UNCHANGED total_beaches
    /\ UNCHANGED <<rpc, regions>>
    /\ UNCHANGED outside_update

\* lines 153-164: the summary
run_full_update_summary ==
    /\ rpc = "loop"
    /\ region_i > Len(regions)
    /\ rpc' = "done"
    /\ UNCHANGED <<regions, region_i, total_beaches, failed_regions, region_log>>
    /\ UNCHANGED outside_update

UpdateNext ==
    \/ run_full_update
    \/ run_full_update_region
    \/ run_full_update_summary

UpdateSpec == GeoInit /\ [][UpdateNext]_vars

(***************************************************************************)
(* FirebaseManager.batch_upload and _update_metadata                       *)
(* (src/src/database/firebase_manager.py, lines 53-95).                    *)
(*                                                                         *)
(* The record at position k of the input is set under the document of its  *)
(* own id (lines 65-67), one set per record and in input order, so a batch *)
(* is kept as the range first..last of the input positions it holds.  A    *)
(* commit and the write of the metadata document are calls to the store    *)
(* and may fail.                                                           *)
(***************************************************************************)
\* Largest number of full batches in the input.
MaxBatches == 2

\* self.batch_size
batch_size == 500

\* lengths of the input around the multiples of batch_size
UploadSizes ==
    {k * batch_size + d : k \in 0..MaxBatches, d \in {-1, 0, 1}} \cap Nat

\* line 70: the batch is committed when count reaches a multiple of batch_size
batch_full_late(c) == c % (batch_size + 1) = 0
batch_full(c) == c % batch_size = 0

\* line 76: there are documents left to commit
batch_remaining(c) == c % batch_size # 0

\* batch.set(beach_ref, beach_data)
batch_set(b, k) == [first |-> b.first, last |-> k]

\* the number of operations of a batch
BatchLen(b) == b.last - b.first + 1

\* lines 60-62: the call
batch_upload ==
    /\ upc = "idle"
    /\ \E n \in UploadSizes : n_beaches' = n
    /\ upc' = "loop"
    /\ count' = 0
    /\ batch' = EmptyBatch
    /\ UNCHANGED <<committed, metadata, metadata_calls, metadata_error>>
    /\ UNCHANGED outside_upload

\* lines 64-73: one record, and the commit of a full batch
batch_upload_beach ==
    /\ upc = "loop"
    /\ count < n_beaches
    /\ count' = count + 1
    /\ IF batch_full(count + 1)
       THEN \E ok \in BOOLEAN :
              IF ok
              THEN /\ committed' = Append(committed, batch_set(batch, count + 1))
                   /\ batch' = [first |-> count + 2, last |-> count + 1]
                   /\ UNCHANGED upc
              ELSE /\ upc' = "raised"
                   /\ batch' = batch_set(batch, count + 1)
                   /\ UNCHANGED committed
       ELSE /\ batch' = batch_set(batch, count + 1)
            /\ UNCHANGED <<upc, committed>>
    /\ UNCHANGED <<n_beaches, metadata, metadata_calls, metadata_error>>
    /\ UNCHANGED outside_upload

\* lines 86-95: _update_metadata; a failed write is logged and swallowed
_update_metadata(c) ==
    /\ metadata_calls' = metadata_calls + 1
    /\ \E ok \in BOOLEAN :
         IF ok
         THEN /\ metadata' = [updates |-> metadata.updates + 1,
                              total_locations |-> c]
              /\ UNCHANGED metadata_error
         ELSE /\ metadata_error' = TRUE
              /\ UNCHANGED metadata

\* lines 75-84: the commit of the remaining documents, then the metadata
batch_upload_finish ==
    /\ upc = "loop"
    /\ count = n_beaches
    /\ \E ok \in BOOLEAN :
         IF batch_remaining(count) /\ ~ok
         THEN /\ upc' = "raised"
              /\ UNCHANGED <<batch, committed, metadata, metadata_calls,
                             metadata_error>>
         ELSE /\ upc' = "returned"
              /\ IF batch_remaining(count)
                 THEN committed' = Append(committed, batch)
                 ELSE UNCHANGED committed
              /\ UNCHANGED batch
              /\ _update_metadata(count)
    /\ UNCHANGED <<n_beaches, count>>
    /\ UNCHANGED outside_upload

UploadNext ==
    \/ batch_upload
    \/ batch_upload_beach
    \/ batch_upload_finish

UploadSpec == GeoInit /\ [][UploadNext]_vars

(***************************************************************************)
(* Vocabulary of the properties.                                           *)
(***************************************************************************)
Area == _calculate_area(region)

WellFormed(r) == RLess(r.south, r.north) /\ RLess(r.west, r.east)

SameBox(a, b) ==
    a.south = b.south /\ a.north = b.north /\ a.west = b.west /\ a.east = b.east

\* box a lies within box b
Inside(a, b) ==
    /\ RLeq(b.south, a.south) /\ RLeq(a.north, b.north)
    /\ RLeq(b.west, a.west) /\ RLeq(a.east, b.east)

\* the interiors of boxes a and b do not meet
Disjoint(a, b) ==
    \/ RLeq(a.north, b.south) \/ RLeq(b.north, a.south)
    \/ RLeq(a.east, b.west) \/ RLeq(b.east, a.west)

\* the sum of the areas of boxes[lo..hi], lo <= hi
RECURSIVE SumAreas(_, _, _)
SumAreas(boxes, lo, hi) ==
    IF lo = hi THEN _calculate_area(boxes[lo])
    ELSE LET mid == (lo + hi) \div 2
             left == SumAreas(boxes, lo, mid)
             right == SumAreas(boxes, mid + 1, hi)
         IN RAdd(left, right)

\* the records of log entries from..Len(log), in order
RECURSIVE BeachesFrom(_, _)
BeachesFrom(log, from) ==
    IF from > Len(log) THEN <<>> ELSE log[from].beaches \o BeachesFrom(log, from + 1)

Finished == pc \in {"returned", "raised"}

Outcomes_logged == {leafLog[i].outcome : i \in 1..Len(leafLog)}

(***************************************************************************)
(* C1. Evaluate rule of collect: a box whose area is above max_area and    *)
(* above min_area goes straight to split collection and no leaf query is   *)
(* ever issued for the whole box; any other box gets a direct leaf query   *)
(* of the whole box first.                                                 *)
(***************************************************************************)
C1_EvaluateRule ==
    pc # "start" =>
        IF RLess(max_area, Area) /\ RLess(min_area, Area)
        THEN /\ pc # "direct"
             /\ splits # <<>>
             /\ \A k \in 1..Len(splits) : ~SameBox(splits[k], region)
             /\ \A i \in 1..Len(leafLog) :
                    leafLog[i].via = "split" /\ ~SameBox(leafLog[i].box, region)
        ELSE \/ pc = "direct" /\ leafLog = <<>> /\ splits = <<>>
             \/ /\ Len(leafLog) >= 1
                /\ leafLog[1].via = "direct"
                /\ leafLog[1].box = region

C1_Witness ==
    /\ RLess(max_area, Area)
    /\ pc = "returned"
    /\ Len(leafLog) = Len(splits)
    /\ Len(splits) >= 2

(***************************************************************************)
(* C2. Termination: whatever the box and whatever the leaf queries answer, *)
(* one call of collect finishes (it returns or raises).                    *)
(***************************************************************************)
C2_Termination == <>Finished

C2_Witness ==
    /\ pc = "returned"
    /\ Len(leafLog) >= 4
    /\ {"records", "timeout", "other", "exhausted"} \subseteq Outcomes_logged

(***************************************************************************)
(* C3. Base case: a box whose area is at or below min_area gets at most    *)
(* one leaf query, the direct one, and never enters split collection; when *)
(* that query returns records, returns nothing or times out, collect       *)
(* returns what the query gave, the empty list when it gave no record.     *)
(***************************************************************************)
C3_BaseCase ==
    RLeq(Area, min_area) =>
        /\ pc # "split"
        /\ splits = <<>>
        /\ Len(leafLog) <= 1
        /\ \A i \in 1..Len(leafLog) :
              /\ leafLog[i].via = "direct"
              /\ leafLog[i].outcome \in {"records", "empty", "timeout"} =>
                    pc = "returned" /\ result = leafLog[i].beaches
              /\ leafLog[i].outcome \in {"empty", "timeout"} => result = <<>>

C3_Witness ==
    /\ WellFormed(region)
    /\ RLeq(Area, min_area)
    /\ pc = "returned"
    /\ Len(leafLog) = 1
    /\ leafLog[1].outcome = "timeout"

(***************************************************************************)
(* C4. At every split, by the area threshold or by the fallback, there are *)
(* at least 2 tiles needed and each sub-box is smaller than the box that   *)
(* was split by at least that factor.                                      *)
(***************************************************************************)
C4_SplitShrinks ==
    splits # <<>> =>
        /\ splits_needed(region) >= 2
        /\ \A k \in 1..Len(splits) :
              /\ RLess(_calculate_area(splits[k]), Area)
              /\ RLeq(RMul(Rat(splits_needed(region)), _calculate_area(splits[k])), Area)

(***************************************************************************)
(* C5. Fallback split: when the direct leaf query of a box with area above *)
(* min_area ends with no accepted record (empty or timeout), collect runs  *)
(* split collection on the box and returns its aggregate; when the direct  *)
(* query gives a record, collect returns those records and runs no split.  *)
(***************************************************************************)
C5_FallbackSplit ==
    (Len(leafLog) >= 1 /\ leafLog[1].via = "direct") =>
        /\ (leafLog[1].outcome \in {"empty", "timeout"} /\ RLess(min_area, Area)) =>
              /\ pc \in {"split", "returned"}
              /\ splits # <<>>
              /\ \A i \in 2..Len(leafLog) :
                    leafLog[i].via = "split" /\ leafLog[i].box = splits[i - 1]
              /\ pc = "returned" =>
                    /\ Len(leafLog) = 1 + Len(splits)
                    /\ result = BeachesFrom(leafLog, 2)
        /\ leafLog[1].outcome = "records" =>
              /\ pc = "returned"
              /\ leafLog[1].beaches # <<>>
              /\ result = leafLog[1].beaches
              /\ splits = <<>>
              /\ Len(leafLog) = 1

C5_Witness ==
    /\ pc = "returned"
    /\ Len(leafLog) = 2
    /\ leafLog[1].via = "direct"
    /\ leafLog[1].outcome = "empty"
    /\ leafLog[2].via = "split"
    /\ result # <<>>

(***************************************************************************)
(* C6. A sub-box of a split whose leaf query ends empty or timed out, and  *)
(* whose area is above min_area, is subdivided again: smaller boxes within *)
(* it are queried afterwards.                                              *)
(***************************************************************************)
C6_SubBoxReEvaluated ==
    pc = "returned" =>
        \A i \in 1..Len(leafLog) :
            ( /\ leafLog[i].via = "split"
              /\ leafLog[i].outcome \in {"empty", "timeout"}
              /\ RLess(min_area, _calculate_area(leafLog[i].box)) ) =>
            \E j \in (i + 1)..Len(leafLog) :
                /\ Inside(leafLog[j].box, leafLog[i].box)
                /\ RLess(_calculate_area(leafLog[j].box), _calculate_area(leafLog[i].box))

(***************************************************************************)
(* C7. Grid computation: for a box with area above max_area the split is   *)
(* lat x lon equal sub-boxes in row-major order, where tiles is the least  *)
(* integer with tiles * max_area >= area, lat is the least integer whose   *)
(* square reaches tiles when the box is taller than wide and 1 otherwise,  *)
(* and lon is the least integer with lon * lat >= tiles; so there are at   *)
(* least tiles sub-boxes, at least 94 for the box (-35, -13, 112, 129).    *)
(***************************************************************************)
Least(S) == CHOOSE x \in S : \A y \in S : x <= y

C7_GridComputation ==
    (pc = "computed" /\ RLess(max_area, Area)) =>
        LET limit == Area[1]
            tiles == Least({t \in 0..limit : RLeq(Area, RMul(Rat(t), max_area))})
            tall  == RLess(RSub(region.east, region.west), RSub(region.north, region.south))
            lat   == IF tall THEN Least({k \in 0..tiles : k * k >= tiles}) ELSE 1
            lon   == Least({m \in 0..tiles : m * lat >= tiles})
            dlat  == RDiv(RSub(region.north, region.south), Rat(lat))
            dlon  == RDiv(RSub(region.east, region.west), Rat(lon))
        IN
        /\ tiles >= 2
        /\ Len(splits) = lat * lon
        /\ Len(splits) >= tiles
        /\ \A i \in 0..(lat - 1) : \A j \in 0..(lon - 1) :
              LET s == splits[i * lon + j + 1] IN
              /\ s.name = region.name \o <<i, j>>
              /\ s.south = RAdd(region.south, RMul(Rat(i), dlat))
              /\ s.west = RAdd(region.west, RMul(Rat(j), dlon))
              /\ RSub(s.north, s.south) = dlat
              /\ RSub(s.east, s.west) = dlon
        /\ SameBox(region, Australia) => Len(splits) >= 94

C7_Witness ==
    /\ pc = "computed"
    /\ SameBox(region, Australia)
    /\ Len(splits) = 100

C9_Isolation ==
    (pc = "returned" /\ splits # <<>>) =>
        LET off == Len(leafLog) - Len(splits) IN
        /\ off \in {0, 1}
        /\ \A k \in 1..Len(splits) :
              LET e == leafLog[off + k] IN
              /\ e.via = "split"
              /\ e.box = splits[k]
              /\ e.outcome \in {"other", "exhausted"} => e.beaches = <<>>
              /\ e.outcome = "records" =>
                    /\ e.beaches # <<>>
                    /\ \A b \in 1..Len(e.beaches) :
                          \E x \in 1..Len(result) : result[x] = e.beaches[b]
        /\ result = BeachesFrom(leafLog, off + 1)

C9_Witness ==
    /\ pc = "returned"
    /\ Len(splits) >= 3
    /\ Len(leafLog) = Len(splits)
    /\ leafLog[1].outcome = "other"
    /\ leafLog[2].outcome = "exhausted"
    /\ leafLog[3].outcome = "records"
    /\ result # <<>>

(***************************************************************************)
(* C10. Retry bound: no leaf query runs a 4th attempt; attempts are        *)
(* counted one by one; a rate-limited leaf query never ends before its 3rd *)
(* attempt, and it is given up exactly at the 3rd.                         *)
(***************************************************************************)
C10_RetryBound ==
    /\ [](attempt <= 3)
    /\ []("ratelimited" \notin Outcomes_logged)
    /\ [][attempt' # attempt => (attempt' = 1 \/ attempt' = attempt + 1)]_vars
    /\ [][(Len(leafLog') > Len(leafLog)
            /\ leafLog'[Len(leafLog')].outcome = "exhausted") => attempt = 3]_vars

C10_Witness ==
    /\ pc = "raised"
    /\ exc.type = "RetryError"
    /\ attempt = 3
    /\ Len(leafLog) = 1
    /\ leafLog[1].outcome = "exhausted"

(***************************************************************************)
(* Vocabulary of the retry properties.                                     *)
(***************************************************************************)
\* the next step of the call is an attempt of a leaf query
AttemptStep == pc = "direct" \/ (pc = "split" /\ idx <= Len(splits))

\* the step attempts the same leaf query again
Retried ==
    /\ attempt' = attempt + 1
    /\ pc' = pc
    /\ idx' = idx
    /\ leafLog' = leafLog

\* the step ends the running leaf query with outcome k
Resolved(k) ==
    /\ Len(leafLog') = Len(leafLog) + 1
    /\ leafLog'[Len(leafLog')].outcome = k
    /\ ~Retried

(***************************************************************************)
(* C11. A timed-out attempt is retried: an attempt of a leaf query that    *)
(* times out before the third attempt is followed by another attempt of    *)
(* the same box, so a leaf query resolves as timeout only on attempt 3.    *)
(***************************************************************************)
C11_TimeoutRetried ==
    [][AttemptStep /\ last_outcome' = "timeout" /\ attempt < 3 => Retried]_vars

(***************************************************************************)
(* C12. An attempt that fails with another exception than the two Overpass *)
(* ones is never retried: the attempt ends the leaf query, which is logged *)
(* as "other"; failing on the first attempt, the query made one attempt.   *)
(***************************************************************************)
C12_OtherNotRetried ==
    [][AttemptStep /\ last_outcome' = "other" => Resolved("other")]_vars

C12_Witness ==
    /\ last_outcome = "other"
    /\ pc = "split"
    /\ idx = 2
    /\ attempt = 1
    /\ Len(leafLog) = 1
    /\ leafLog[1].outcome = "other"

(***************************************************************************)
(* C13. No crash on a leaf failure: collect of a well-formed box never     *)
(* raises; a direct leaf query that fails with another exception gives no  *)
(* record and collect still returns a list.                                *)
(***************************************************************************)
C13_NoCrash ==
    WellFormed(region) =>
        /\ pc # "raised"
        /\ \A i \in 1..Len(leafLog) :
               leafLog[i].outcome = "other" => leafLog[i].beaches = <<>>

(***************************************************************************)
(* C14. Exhausted retries are handled like an empty answer: after a direct *)
(* leaf query that was rate limited on all three attempts, collect does    *)
(* not raise; it goes to split collection when the area is above min_area  *)
(* and returns the empty list otherwise.                                   *)
(***************************************************************************)
C14_ExhaustedLikeEmpty ==
    (/\ Len(leafLog) >= 1
     /\ leafLog[1].via = "direct"
     /\ leafLog[1].outcome = "exhausted")
    => /\ pc # "raised"
       /\ IF RLess(min_area, Area)
          THEN splits = SplitsOf[region]
          ELSE pc = "returned" /\ result = <<>>

(***************************************************************************)
(* C15. Backoff schedule: the sleep before the first retry is wait_min     *)
(* (4), every later sleep is twice the one before it, capped at wait_max   *)
(* (10), so the sleeps strictly increase until they reach the cap, and no  *)
(* sleep exceeds wait_max.                                                 *)
(***************************************************************************)
C15_Backoff ==
    [][AttemptStep /\ Retried =>
         /\ wait' <= wait_max
         /\ attempt = 1 => wait' = wait_min
         /\ attempt > 1 =>
               /\ wait' = Min(2 * wait, wait_max)
               /\ wait < wait_max => wait' > wait]_vars

(***************************************************************************)
(* Vocabulary of the geohash properties.                                   *)
(***************************************************************************)
\* the call was made with a latitude in [-90, 90] and a longitude in
\* [-180, 180]
InRange(c) ==
    /\ RLeq(Rat(-90), c.latitude) /\ RLeq(c.latitude, Rat(90))
    /\ RLeq(Rat(-180), c.longitude) /\ RLeq(c.longitude, Rat(180))

Alphabet ==
    {"0", "1", "2", "3", "4", "5", "6", "7", "8", "9", "b", "c", "d", "e", "f",
     "g", "h", "j", "k", "m", "n", "p", "q", "r", "s", "t", "u", "v", "w", "x",
     "y", "z"}

\* The reference encoder.  The first n binary digits of a / b, 0 <= a <= b:
\* a digit is 1 iff the rest, doubled, is strictly above 1.  With a / b the
\* position of a coordinate within its full range, digit i says whether
\* the coordinate is strictly above the midpoint of the interval kept
\* after i - 1 halvings.
RECURSIVE Expansion(_, _, _)
Expansion(a, b, n) ==
    IF n = 0 THEN <<>>
    ELSE LET d == IF 2 * a > b THEN 1 ELSE 0
         IN <<d>> \o Expansion(2 * a - d * b, b, n - 1)

RefAlphabet ==
    << "0", "1", "2", "3", "4", "5", "6", "7", "8", "9", "b", "c", "d", "e",
       "f", "g", "h", "j", "k", "m", "n", "p", "q", "r", "s", "t", "u", "v",
       "w", "x", "y", "z" >>

Reference(latitude, longitude, precision) ==
    LET lon_bits == Expansion(longitude[1] + 180 * longitude[2],
                              360 * longitude[2], 5 * precision)
        lat_bits == Expansion(latitude[1] + 90 * latitude[2],
                              180 * latitude[2], 5 * precision)
        \* bit g of the interleaved stream, longitude first
        Bit(g) == IF g % 2 = 1 THEN lon_bits[(g + 1) \div 2] ELSE lat_bits[g \div 2]
        \* character c: five bits, most significant first
        Value(c) == 16 * Bit(5 * c - 4) + 8 * Bit(5 * c - 3) + 4 * Bit(5 * c - 2)
                    + 2 * Bit(5 * c - 1) + Bit(5 * c)
    IN [c \in 1..precision |-> RefAlphabet[Value(c) + 1]]

\* the length of the longest common prefix of two sequences
RECURSIVE CommonPrefix(_, _)
CommonPrefix(a, b) ==
    IF a = <<>> \/ b = <<>> \/ Head(a) # Head(b) THEN 0
    ELSE 1 + CommonPrefix(Tail(a), Tail(b))

At(c, pt, precision) ==
    c.latitude = pt[1] /\ c.longitude = pt[2] /\ c.precision = precision

(***************************************************************************)
(* C16. For a latitude in [-90, 90], a longitude in [-180, 180] and a      *)
(* precision of at least 1, create_geohash returns a string of exactly     *)
(* precision characters, all of them in the alphabet                       *)
(* 0123456789bcdefghjkmnpqrstuvwxyz.                                       *)
(***************************************************************************)
C16_LengthAndAlphabet ==
    \A i \in 1..Len(geo_calls) :
        LET c == geo_calls[i] IN
        InRange(c) /\ c.precision >= 1 =>
            /\ c.status = "return"
            /\ Len(c.geohash) = c.precision
            /\ \A j \in 1..Len(c.geohash) : c.geohash[j] \in Alphabet

C16_Witness ==
    /\ Len(geo_calls) = 1
    /\ InRange(geo_calls[1])
    /\ geo_calls[1].precision = MaxPrecision
    /\ Len(geo_calls[1].geohash) = MaxPrecision
    /\ geo_calls[1].geohash[1] = "z"

(***************************************************************************)
(* C17. create_geohash returns what the reference encoder returns:         *)
(* longitude first and then alternating, bit 1 and the upper half iff the  *)
(* coordinate is strictly above the midpoint, five bits a character, most  *)
(* significant first, through the base-32 alphabet.  The result depends on *)
(* the arguments of the call alone.                                        *)
(***************************************************************************)
C17_ReferenceEncoder ==
    \A i \in 1..Len(geo_calls) :
        LET c == geo_calls[i] IN
        InRange(c) /\ c.precision >= 1 =>
            c.geohash = Reference(c.latitude, c.longitude, c.precision)

\* a call whose coordinates both sit on a midpoint: the bits are 0 there
C17_Witness ==
    /\ Len(geo_calls) = 1
    /\ At(geo_calls[1], <<Rat(0), <<45, 2>>>>, MaxPrecision)
    /\ geo_calls[1].geohash[1] = "k"

(***************************************************************************)
(* C18. Locality scenario as first stated: at precision 6 the geohash of   *)
(* (0, 0) shares a strictly longer prefix with the geohash of              *)
(* (0.0001, 0.0001) than with the geohash of (50, 50).                     *)
(***************************************************************************)
C18_Locality ==
    \A i, j, k \in 1..Len(geo_calls) :
        (/\ At(geo_calls[i], Origin, 6)
         /\ At(geo_calls[j], NearOrigin, 6)
         /\ At(geo_calls[k], FarPoint, 6))
        => CommonPrefix(geo_calls[i].geohash, geo_calls[j].geohash)
             > CommonPrefix(geo_calls[i].geohash, geo_calls[k].geohash)

(***************************************************************************)
(* C18, amended.  At precision 6 the prefix the geohash of (0, 0) shares   *)
(* with the geohash of (0.0001, 0.0001) is at least as long as the one it  *)
(* shares with the geohash of (50, 50), and both are empty: (0, 0) is not  *)
(* above the first midpoints and encodes to 7zzzzz, (0.0001, 0.0001)       *)
(* encodes to s00000.                                                      *)
(***************************************************************************)
C18_LocalityAmended ==
    \A i, j, k \in 1..Len(geo_calls) :
        (/\ At(geo_calls[i], Origin, 6)
         /\ At(geo_calls[j], NearOrigin, 6)
         /\ At(geo_calls[k], FarPoint, 6))
        => /\ CommonPrefix(geo_calls[i].geohash, geo_calls[j].geohash)
                >= CommonPrefix(geo_calls[i].geohash, geo_calls[k].geohash)
           /\ CommonPrefix(geo_calls[i].geohash, geo_calls[j].geohash) = 0
           /\ geo_calls[i].geohash = <<"7", "z", "z", "z", "z", "z">>
           /\ geo_calls[j].geohash = <<"s", "0", "0", "0", "0", "0">>

C18_Witness ==
    /\ Len(geo_calls) = 3
    /\ At(geo_calls[1], Origin, 6)
    /\ At(geo_calls[2], NearOrigin, 6)
    /\ At(geo_calls[3], FarPoint, 6)

(***************************************************************************)
(* C19. A call of create_geohash with a latitude outside [-90, 90] or a    *)
(* longitude outside [-180, 180] fails and returns no geohash.             *)
(***************************************************************************)
C19_InvalidCoordinate ==
    \A i \in 1..Len(geo_calls) :
        ~InRange(geo_calls[i]) =>
            geo_calls[i].status = "raise" /\ geo_calls[i].geohash = <<>>

(***************************************************************************)
(* C20. Every record handed to batch_upload carries a geohash: the         *)
(* attribute is set, it has default_precision (8) characters and it is the *)
(* geohash of the coordinates of the record as handed over; create_geohash *)
(* was called once for each record that passed the cleaning.               *)
(***************************************************************************)
C20_GeohashOnUpload ==
    /\ \A u \in 1..Len(uploads) : \A k \in 1..Len(uploads[u]) :
          LET b == uploads[u][k] IN
          /\ b.has_geohash
          /\ b.geohash # <<>>
          /\ Len(b.geohash) = 8
          /\ b.geohash = Reference(b.latitude, b.longitude, 8)
    /\ Len(geo_calls) = Len(processed_beaches)
    /\ \A k \in 1..Len(processed_beaches) :
          /\ geo_calls[k].latitude = processed_beaches[k].latitude
          /\ geo_calls[k].longitude = processed_beaches[k].longitude

\* two records were handed over; the first one had its latitude rounded
\* to 0 by the cleaning and carries the geohash of (0, 0)
C20_Witness ==
    /\ ppc = "returned"
    /\ Len(uploads) = 1
    /\ Len(uploads[1]) = 2
    /\ beaches_chunk[1].latitude = <<1, 2500000>>
    /\ uploads[1][1].latitude = Rat(0)
    /\ uploads[1][1].geohash = <<"7", "z", "z", "z", "z", "z", "z", "z">>

(***************************************************************************)
(* C24. A malformed box, one that does not have south < north and          *)
(* west < east, is rejected by collect at once: no leaf query is attempted *)
(* for it and collect does not return a list.                              *)
(***************************************************************************)
C24_MalformedRejected ==
    ~WellFormed(region) =>
        /\ last_outcome = "none"
        /\ leafLog = <<>>
        /\ pc # "returned"

(***************************************************************************)
(* C25. Inter-branch delay: in a split collection, at least split_delay    *)
(* seconds of sleep lie between the leaf query of a sub-box and the first  *)
(* leaf query of the next sub-box, whatever the first sub-box answered.    *)
(***************************************************************************)
C25_InterBranchDelay ==
    [][(/\ pc = "split"
        /\ 2 <= idx
        /\ idx <= Len(splits)
        /\ attempt = 1
        /\ gap' # gap)
       => gap' >= 3]_vars

BondiBeach == <<"B", "o", "n", "d", "i", " ", "B", "e", "a", "c", "h">>
Numeric12345 == <<"1", "2", "3", "4", "5">>

\* str is word, whatever the case of its letters (word is in lower case)
AnyCase(str, word) ==
    /\ Len(str) = Len(word)
    /\ \A i \in 1..Len(word) :
          \/ str[i] = word[i]
          \/ \E k \in 1..26 : Lowercase[k] = word[i] /\ Uppercase[k] = str[i]

\* the acceptance rules for a name
PlausibleName(name) ==
    /\ name # <<>>
    /\ ~(Len(name) >= 6 /\ name[1] = "B" /\ name[2] = "e" /\ name[3] = "a"
         /\ name[4] = "c" /\ name[5] = "h" /\ name[6] = " ")
    /\ ~AnyCase(name, <<"u", "n", "n", "a", "m", "e", "d", " ", "b", "e", "a", "c", "h">>)
    /\ Len(name) >= 3
    /\ \E i \in 1..Len(name) : name[i] \notin Digits

\* the acceptance rules for a record, or for the way it is built from
Acceptable(b) ==
    /\ PlausibleName(b.name)
    /\ RLeq(Rat(-90), b.latitude) /\ RLeq(b.latitude, Rat(90))
    /\ RLeq(Rat(-180), b.longitude) /\ RLeq(b.longitude, Rat(180))

\* the ways the loop has gone through
Processed == IF wi - 1 <= Len(ways) THEN wi - 1 ELSE Len(ways)

Holds(id) == \E i \in 1..Len(leaf_beaches) : leaf_beaches[i].id = id

(***************************************************************************)
(* C21. Every record of the list a leaf query returns meets the acceptance *)
(* rules: a name that is not empty, does not start with "Beach ", is not   *)
(* "unnamed beach" in any letter case, has at least 3 characters and is    *)
(* not all digits, and coordinates in range.  A way named "12345" is never *)
(* in the list; a way named "Bondi Beach" with coordinates in range is.    *)
(***************************************************************************)
C21_AcceptanceRules ==
    /\ \A i \in 1..Len(leaf_beaches) :
          /\ Acceptable(leaf_beaches[i])
          /\ leaf_beaches[i].name # Numeric12345
    /\ \A k \in 1..Processed :
          (/\ ways[k].coords = "ok"
           /\ ways[k].name = BondiBeach
           /\ Acceptable(ways[k]))
          => Holds(k)

C21_Witness ==
    /\ lpc = "returned"
    /\ Len(ways) = 2
    /\ ways[1].coords = "ok" /\ ways[1].name = Numeric12345
    /\ Acceptable([ways[1] EXCEPT !.name = BondiBeach])
    /\ ways[2].coords = "ok" /\ ways[2].name = BondiBeach
    /\ Len(leaf_beaches) = 1
    /\ leaf_beaches[1].id = 2
    /\ leaf_beaches[1].name = BondiBeach

(***************************************************************************)
(* C22. Record-level isolation: a way whose coordinate extraction,         *)
(* processing or validation fails is dropped on its own; the loop goes on, *)
(* and the list holds every acceptable way gone through so far, once each  *)
(* and in the order of the answer.                                         *)
(***************************************************************************)
C22_RecordIsolation ==
    LET good == SelectSeq(SubSeq(ways, 1, Processed),
                          LAMBDA w : w.coords = "ok" /\ Acceptable(w))
    IN /\ lpc \in {"idle", "loop", "returned"}
       /\ Len(leaf_beaches) = Len(good)
       /\ \A i \in 1..Len(good) : leaf_beaches[i].id = good[i].id
       /\ lpc = "returned" => Processed = Len(ways)

C22_Witness ==
    /\ lpc = "returned"
    /\ Len(ways) = 2
    /\ ways[1].coords = "raise"
    /\ Len(leaf_beaches) = 1
    /\ leaf_beaches[1].id = 2

(***************************************************************************)
(* C23. Skipped accounting: when the loop is over, the number of accepted  *)
(* records plus skipped_count is the number of ways of the answer.         *)
(***************************************************************************)
C23_SkippedAccounting ==
    lpc = "returned" => Len(leaf_beaches) + skipped_count = Len(ways)

(***************************************************************************)
(* Vocabulary of the update properties.                                    *)
(***************************************************************************)
\* the entries of region_log with the given outcome
LoggedAs(kind) == SelectSeq(region_log, LAMBDA e : e.outcome = kind)

RECURSIVE SumReturned(_)
SumReturned(log) ==
    IF log = <<>> THEN 0 ELSE Head(log).n + SumReturned(Tail(log))

(***************************************************************************)
(* C27. run_full_update calls process_region once for every region of its  *)
(* list, in list order; a region whose call raised is recorded in          *)
(* failed_regions and the later regions are still processed; at the end    *)
(* the failed regions and the regions whose call returned add up to the    *)
(* length of the list.                                                     *)
(***************************************************************************)
C27_EveryRegionOnce ==
    /\ \A k \in 1..Len(region_log) :
          region_log[k].i = k /\ region_log[k].region = regions[k]
    /\ rpc = "loop" => Len(region_log) = region_i - 1
    /\ rpc = "done" => Len(region_log) = Len(regions)
    /\ Len(failed_regions) = Len(LoggedAs("raised"))
    /\ \A k \in 1..Len(failed_regions) :
          failed_regions[k] =
              region_name(LoggedAs("raised")[k].region, LoggedAs("raised")[k].i)
    /\ rpc = "done" =>
          Len(failed_regions) + Len(LoggedAs("returned")) = Len(regions)
    /\ total_beaches = SumReturned(region_log)

\* the first of three regions failed and the two after it were processed
C27_Witness ==
    /\ rpc = "done"
    /\ Len(regions) = 3
    /\ region_log[1].outcome = "raised"
    /\ region_log[2].outcome = "returned"
    /\ region_log[3].outcome = "returned"
    /\ Len(failed_regions) = 1
    /\ total_beaches = 2

(***************************************************************************)
(* Vocabulary of the upload properties.                                    *)
(***************************************************************************)
CeilDiv(n, d) == (n + d - 1) \div d

\* the committed batches hold the input positions 1..n, each once, in order,
\* and none is empty or larger than 500
WrittenInOrder(n) ==
    /\ \A j \in 1..Len(committed) :
          /\ committed[j].first = (IF j = 1 THEN 1 ELSE committed[j - 1].last + 1)
          /\ BatchLen(committed[j]) >= 1
          /\ BatchLen(committed[j]) <= 500
    /\ IF committed = <<>> THEN n = 0 ELSE committed[Len(committed)].last = n

\* what a normal return leaves in the collection of beaches
UploadedAll ==
    /\ count = n_beaches
    /\ WrittenInOrder(n_beaches)
    /\ Len(committed) = CeilDiv(n_beaches, 500)

\* what a failed commit leaves: the batches committed before it, and no
\* metadata
CommitFailed ==
    /\ WrittenInOrder(500 * Len(committed))
    /\ Len(committed) = CeilDiv(count, 500) - 1
    /\ metadata = NoMetadata
    /\ metadata_calls = 0

(***************************************************************************)
(* C28, as first stated.  A batch_upload that returns normally has written *)
(* every record once, in input order, in ceil(n/500) committed batches of  *)
(* 1..500 records, and has updated the metadata document once after the    *)
(* last commit; a failed commit raises, keeps the earlier batches and      *)
(* leaves the metadata alone.                                              *)
(***************************************************************************)
C28_BatchUpload ==
    /\ upc = "returned" =>
          /\ UploadedAll
          /\ metadata = [updates |-> 1, total_locations |-> n_beaches]
    /\ upc = "loop" => metadata = NoMetadata
    /\ upc = "raised" => CommitFailed

(***************************************************************************)
(* C28, amended.  A batch_upload that returns normally has written every   *)
(* record once, in input order, in ceil(n/500) committed batches of 1..500 *)
(* records, and has called _update_metadata once after the last commit:    *)
(* the metadata document is then written once with the count, unless that  *)
(* write failed, which is logged and leaves the document as it was.  A     *)
(* failed commit raises, keeps the earlier batches and leaves the metadata *)
(* alone.                                                                  *)
(***************************************************************************)
C28_BatchUploadAmended ==
    /\ upc = "returned" =>
          /\ UploadedAll
          /\ metadata_calls = 1
          /\ IF metadata_error
             THEN metadata = NoMetadata
             ELSE metadata = [updates |-> 1, total_locations |-> n_beaches]
    /\ upc = "loop" => metadata = NoMetadata /\ metadata_calls = 0
    /\ upc = "raised" => CommitFailed

\* 501 records went out in a batch of 500 and a batch of 1, and the write
\* of the metadata failed
C28_Witness ==
    /\ upc = "returned"
    /\ n_beaches = 501
    /\ committed = <<[first |-> 1, last |-> 500], [first |-> 501, last |-> 501]>>
    /\ metadata_error
    /\ metadata = NoMetadata

====
